---- MODULE Spec2Model ----
(***************************************************************************)
(* Model of internal/dhcpd/check_other_dhcp.go:                            *)
(*   CheckIfOtherDHCPServersPresentV4 and CheckIfOtherDHCPServersPresentV6 *)
(*                                                                         *)
(* Every variable is a function over Probes: the two functions share no    *)
(* state, each has its own locals (iface, req, c, b, err).  Time is kept   *)
(* relative: remaining[p] is the time left until the read deadline of      *)
(* probe p's endpoint, elapsed[p] the time passed since that probe first   *)
(* set a read deadline.  Statements other than the blocking ReadFrom take  *)
(* no model time.  The caller of Spec invokes one probe at a time, again   *)
(* and again; the caller of SpecConcurrent may invoke both at once.        *)
(***************************************************************************)
EXTENDS Integers, FiniteSets, Sequences, TLC

VARIABLES
    caller,     \* how the caller invokes the probes: "serial", "concurrent"
    log,        \* log[p]: what ReadFrom delivered to p's endpoint so far in
                \* this invocation (kept under a concurrent caller)
    goos,       \* runtime.GOOS of the build
    pc,         \* pc[p]: position of probe p in its function body
    iface,      \* iface[p]: result of net.InterfaceByName + getIfaceIPv4/6
    req,        \* req[p]: the DISCOVER / SOLICIT built by this invocation
    conn,       \* conn[p]: state of the endpoint c ("none", "open", "closed")
    binds,      \* binds[p]: calls of NewRawUDPConn / NewIPv6UDPConn
    sends,      \* sends[p]: calls of c.WriteTo
    reads,      \* reads[p]: calls of c.ReadFrom that returned (saturating)
    sets,       \* sets[p]: calls of c.SetReadDeadline (saturating)
    closes,     \* closes[p]: calls of c.Close
    remaining,  \* remaining[p]: time left until c's read deadline
    elapsed,    \* elapsed[p]: time since the first SetReadDeadline (saturating)
    rd,         \* rd[p]: what the ReadFrom of the current iteration returned
    ret         \* ret[p]: the (bool, error) pair returned

vars == <<caller, log, goos, pc, iface, req, conn, binds, sends, reads, sets,
          closes,
          remaining, elapsed, rd, ret>>

Probes == {"v4", "v6"}

(* ------------------------------ bounds -------------------------------- *)

\* Saturation value of the counters reads and sets.
MaxCount == 3

\* Saturation value of the clock elapsed.
MaxElapsed == 5

\* Packets that arrive at one endpoint during one invocation under a
\* concurrent caller.
MaxLog == 2

\* Hardware addresses, transaction ids and DUIDs that occur.
HWAddrs == {1, 2}
XIDs == {1, 2}
DUIDs == {1, 2}

(* ---------------------------- constants ------------------------------- *)

\* time.Now().Add(defaultDiscoverTime): the constant is declared elsewhere
\* in package dhcpd; one model tick is one second.
defaultDiscoverTime == 3

OpcodeBootRequest == "BootRequest"
OpcodeBootReply == "BootReply"
HWTypeEthernet == "Ethernet"
HWTypeOther == "IEEE802"
MessageTypeAdvertise == "Advertise"
MessageTypeReply == "Reply"
MessageTypeRelayReply == "RelayRepl"

(* ------------------------------ values -------------------------------- *)

Sat(n) == IF n > MaxCount THEN MaxCount ELSE n
SatE(n) == IF n > MaxElapsed THEN MaxElapsed ELSE n

\* Results.
Detected == [ok |-> TRUE, err |-> "nil"]
NotDetected == [ok |-> FALSE, err |-> "nil"]
Failed(cause) == [ok |-> FALSE, err |-> cause]
NoRet == [ok |-> FALSE, err |-> "unset"]

\* What the interface lookup can deliver.
NoIface == [found |-> FALSE, hw |-> 0, hasAddr |-> FALSE]
IfaceResults ==
    {NoIface} \cup [found : {TRUE}, hw : HWAddrs, hasAddr : BOOLEAN]

NoReq == [xid |-> 0, cid |-> 0]

\* DHCPv4 packets on the wire: bytes that do not decode, or a message.
Garbage4 ==
    [ok |-> FALSE, op |-> OpcodeBootRequest, hwtype |-> HWTypeOther,
     chaddr |-> 0, xid |-> 0, mt |-> FALSE]
Packets4 ==
    {Garbage4} \cup
    [ok : {TRUE}, op : {OpcodeBootRequest, OpcodeBootReply},
     hwtype : {HWTypeEthernet, HWTypeOther}, chaddr : HWAddrs, xid : XIDs,
     mt : BOOLEAN]

\* DHCPv6 packets on the wire: bytes that do not decode, a message, or a
\* relay envelope with or without an inner message.  cid 0: no client-id
\* option.
Garbage6 ==
    [ok |-> FALSE, relay |-> FALSE, inner |-> FALSE,
     mtype |-> MessageTypeReply, xid |-> 0, cid |-> 0]
EmptyRelay6 ==
    [ok |-> TRUE, relay |-> TRUE, inner |-> FALSE,
     mtype |-> MessageTypeReply, xid |-> 0, cid |-> 0]
Packets6 ==
    {Garbage6, EmptyRelay6} \cup
    [ok : {TRUE}, relay : BOOLEAN, inner : {TRUE},
     mtype : {MessageTypeAdvertise, MessageTypeReply}, xid : XIDs,
     cid : DUIDs \cup {0}]

Packets(p) == IF p = "v4" THEN Packets4 ELSE Packets6

\* The packets on the wire under a concurrent caller: bytes that do not
\* decode, and one well-formed reply, which matches the request or not
\* according to the request's transaction id and identifiers.
ConcurrentPackets(p) ==
    IF p = "v4"
    THEN {Garbage4,
          [ok |-> TRUE, op |-> OpcodeBootReply, hwtype |-> HWTypeEthernet,
           chaddr |-> 1, xid |-> 1, mt |-> TRUE]}
    ELSE {Garbage6,
          [ok |-> TRUE, relay |-> FALSE, inner |-> TRUE,
           mtype |-> MessageTypeAdvertise, xid |-> 1, cid |-> 1]}

NoPkt == [ok |-> FALSE]
NoRead == [err |-> "none", pkt |-> NoPkt]

(* ------------------------------- Init --------------------------------- *)

Locals0 ==
    /\ log = [p \in Probes |-> <<>>]
    /\ goos \in {"linux", "darwin"}
    /\ pc = [p \in Probes |-> "start"]
    /\ iface = [p \in Probes |-> NoIface]
    /\ req = [p \in Probes |-> NoReq]
    /\ conn = [p \in Probes |-> "none"]
    /\ binds = [p \in Probes |-> 0]
    /\ sends = [p \in Probes |-> 0]
    /\ reads = [p \in Probes |-> 0]
    /\ sets = [p \in Probes |-> 0]
    /\ closes = [p \in Probes |-> 0]
    /\ remaining = [p \in Probes |-> 0]
    /\ elapsed = [p \in Probes |-> 0]
    /\ rd = [p \in Probes |-> NoRead]
    /\ ret = [p \in Probes |-> NoRet]

Init == caller = "serial" /\ Locals0

InitConcurrent == caller = "concurrent" /\ Locals0

(* --------------------- the code's pure decisions ---------------------- *)

\* Mutant: the address-family check is left out.
SetupError_NoAddrCheck(p, os, ifc, reqOK, resOK) ==
    IF ~ifc.found THEN "iface"
    ELSE IF p = "v4" /\ os = "darwin" THEN "unsupported"
    ELSE IF ~reqOK THEN "newreq"
    ELSE IF ~resOK THEN "resolve"
    ELSE "nil"

\* Mutant: the platform check is left out.
SetupError_NoPlatformCheck(p, os, ifc, reqOK, resOK) ==
    IF ~ifc.found THEN "iface"
    ELSE IF ~ifc.hasAddr THEN "noaddr"
    ELSE IF ~reqOK THEN "newreq"
    ELSE IF ~resOK THEN "resolve"
    ELSE "nil"

\* Lines 24-66 (v4) and 128-159 (v6): the checks before the endpoint is
\* bound, in the order of the code.  "nil": all passed.
SetupError(p, os, ifc, reqOK, resOK) ==
    IF ~ifc.found THEN "iface"
    ELSE IF ~ifc.hasAddr THEN "noaddr"
    ELSE IF p = "v4" /\ os = "darwin" THEN "unsupported"
    ELSE IF ~reqOK THEN "newreq"
    ELSE IF ~resOK THEN "resolve"
    ELSE "nil"

\* dhcpv4.NewDiscovery / dhcpv6.NewSolicit: a fresh transaction id; the
\* SOLICIT also carries a client identifier.
NewRequest(p, xid, cid) ==
    IF p = "v4" THEN [xid |-> xid, cid |-> 0] ELSE [xid |-> xid, cid |-> cid]

\* Mutant: the deadline is one second short of the discover time.
ReadDeadline_Short == defaultDiscoverTime - 1

\* The deadline handed to c.SetReadDeadline, as time left from now.
ReadDeadline == defaultDiscoverTime

\* isTimeout(err): the read failed because the deadline elapsed.
isTimeout(err) == err = "timeout"

\* dhcpv4.FromBytes(b[:n]) succeeded.
FromBytes(pkt) == pkt.ok

\* Mutant: the transaction ids are not compared.
AcceptV4_NoXid(response, ifc, rq) ==
    /\ response.op = OpcodeBootReply
    /\ response.hwtype = HWTypeEthernet
    /\ response.chaddr = ifc.hw
    /\ response.mt

\* Mutant: the hardware addresses are not compared.
AcceptV4_NoHWAddr(response, ifc, rq) ==
    /\ response.op = OpcodeBootReply
    /\ response.hwtype = HWTypeEthernet
    /\ response.xid = rq.xid
    /\ response.mt

\* Mutant: the opcode is compared with that of a request.
AcceptV4_WrongOpcode(response, ifc, rq) ==
    /\ response.op = OpcodeBootRequest
    /\ response.hwtype = HWTypeEthernet
    /\ response.chaddr = ifc.hw
    /\ response.xid = rq.xid
    /\ response.mt

\* Mutant: the message-type option is not required.
AcceptV4_NoMsgType(response, ifc, rq) ==
    /\ response.op = OpcodeBootReply
    /\ response.hwtype = HWTypeEthernet
    /\ response.chaddr = ifc.hw
    /\ response.xid = rq.xid

\* Lines 110-114: the v4 correlation test.
AcceptV4(response, ifc, rq) ==
    /\ response.op = OpcodeBootReply
    /\ response.hwtype = HWTypeEthernet
    /\ response.chaddr = ifc.hw
    /\ response.xid = rq.xid
    /\ response.mt

\* resp.Type(): the type of the outer decoded packet.
Type(resp) == IF resp.relay THEN MessageTypeRelayReply ELSE resp.mtype

\* resp.GetInnerMessage(): the message itself, or the message a relay
\* envelope wraps; an envelope without one is an error.
GetInnerMessage(resp) ==
    IF resp.relay /\ ~resp.inner
    THEN [err |-> "noinner", mtype |-> MessageTypeReply, xid |-> 0, cid |-> 0]
    ELSE [err |-> "nil", mtype |-> resp.mtype, xid |-> resp.xid,
          cid |-> resp.cid]

\* Mutant: the message type is not tested.
AcceptV6_NoType(resp, msg, rq) ==
    /\ msg.xid = rq.xid
    /\ msg.cid # 0
    /\ rq.cid = msg.cid

\* Mutant: the client identifier is tested for presence only.
AcceptV6_NoCIDEqual(resp, msg, rq) ==
    /\ Type(resp) = MessageTypeAdvertise
    /\ msg.xid = rq.xid
    /\ msg.cid # 0

\* Mutant: the type is taken from the inner message.
AcceptV6_InnerType(resp, msg, rq) ==
    /\ msg.mtype = MessageTypeAdvertise
    /\ msg.xid = rq.xid
    /\ msg.cid # 0
    /\ rq.cid = msg.cid

\* Lines 205-208: the v6 correlation test (rcid # nil is msg.cid # 0).
AcceptV6(resp, msg, rq) ==
    /\ Type(resp) = MessageTypeAdvertise
    /\ msg.xid = rq.xid
    /\ msg.cid # 0
    /\ rq.cid = msg.cid

Continue == [next |-> "continue", ret |-> NoRet]
ReturnOf(r) == [next |-> "return", ret |-> r]

\* Mutant: a packet that does not decode aborts the probe.
ReceiveV4_DecodeAborts(out, ifc, rq) ==
    IF isTimeout(out.err) THEN ReturnOf(NotDetected)
    ELSE IF out.err # "nil" THEN ReturnOf(Failed("receive"))
    ELSE IF ~FromBytes(out.pkt) THEN ReturnOf(Failed("decode"))
    ELSE IF ~AcceptV4(out.pkt, ifc, rq) THEN Continue
    ELSE ReturnOf(Detected)

\* Mutant: a failed read returns true beside the error.
ReceiveV4_ErrorWithTrue(out, ifc, rq) ==
    IF isTimeout(out.err) THEN ReturnOf(NotDetected)
    ELSE IF out.err # "nil" THEN ReturnOf([ok |-> TRUE, err |-> "receive"])
    ELSE IF ~FromBytes(out.pkt) THEN Continue
    ELSE IF ~AcceptV4(out.pkt, ifc, rq) THEN Continue
    ELSE ReturnOf(Detected)

\* Lines 91-121: what one iteration of the v4 loop does with the outcome
\* of ReadFrom.
ReceiveV4(out, ifc, rq) ==
    IF isTimeout(out.err) THEN ReturnOf(NotDetected)
    ELSE IF out.err # "nil" THEN ReturnOf(Failed("receive"))
    ELSE IF ~FromBytes(out.pkt) THEN Continue
    ELSE IF ~AcceptV4(out.pkt, ifc, rq) THEN Continue
    ELSE ReturnOf(Detected)

\* Mutant: every read error is taken for a timeout.
ReceiveV6_AnyErrorIsTimeout(out, rq) ==
    IF out.err # "nil" THEN ReturnOf(NotDetected)
    ELSE IF ~FromBytes(out.pkt) THEN Continue
    ELSE IF GetInnerMessage(out.pkt).err # "nil" THEN Continue
    ELSE IF AcceptV6(out.pkt, GetInnerMessage(out.pkt), rq)
         THEN ReturnOf(Detected)
    ELSE Continue

\* Mutant: a failed extraction of the inner message aborts the probe.
ReceiveV6_InnerErrorAborts(out, rq) ==
    IF isTimeout(out.err) THEN ReturnOf(NotDetected)
    ELSE IF out.err # "nil" THEN ReturnOf(Failed("receive"))
    ELSE IF ~FromBytes(out.pkt) THEN Continue
    ELSE IF GetInnerMessage(out.pkt).err # "nil"
         THEN ReturnOf(Failed("inner"))
    ELSE IF AcceptV6(out.pkt, GetInnerMessage(out.pkt), rq)
         THEN ReturnOf(Detected)
    ELSE Continue

\* Lines 180-213: what one iteration of the v6 loop does with the outcome
\* of ReadFrom.
ReceiveV6(out, rq) ==
    IF isTimeout(out.err) THEN ReturnOf(NotDetected)
    ELSE IF out.err # "nil" THEN ReturnOf(Failed("receive"))
    ELSE IF ~FromBytes(out.pkt) THEN Continue
    ELSE IF GetInnerMessage(out.pkt).err # "nil" THEN Continue
    ELSE IF AcceptV6(out.pkt, GetInnerMessage(out.pkt), rq)
         THEN ReturnOf(Detected)
    ELSE Continue

Receive(p, out, ifc, rq) ==
    IF p = "v4" THEN ReceiveV4(out, ifc, rq) ELSE ReceiveV6(out, rq)

\* Lines 84-122 / 175-214: the receive loop run on its own on the sequence
\* `outs` of outcomes of ReadFrom: the result of the first iteration that
\* returns, NoRet while every iteration continued.
RECURSIVE RunLoop(_, _, _, _)
RunLoop(p, outs, ifc, rq) ==
    IF outs = <<>> THEN NoRet
    ELSE IF Receive(p, Head(outs), ifc, rq).next = "return"
         THEN Receive(p, Head(outs), ifc, rq).ret
    ELSE RunLoop(p, Tail(outs), ifc, rq)

\* What c.ReadFrom can return when `left` is the time left until the read
\* deadline: a packet while the deadline has not elapsed, a timeout once it
\* has, a transport error at any time.
ReadOutcomes(p, left) ==
    (IF left > 0
     THEN {[err |-> "nil", pkt |-> k] : k \in Packets(p)}
     ELSE {[err |-> "timeout", pkt |-> NoPkt]})
    \cup {[err |-> "io", pkt |-> NoPkt]}

(* ------------------------------ actions ------------------------------- *)

\* A serial caller invokes one probe at a time.
CallerAllows(p) ==
    caller = "concurrent" \/ \A q \in Probes \ {p} : pc[q] = "start"

\* What the lookup of the interface delivers and the identifier the SOLICIT
\* gets: anything under a serial caller; a concurrent caller invokes both
\* probes for one interface, with hardware address 1 and DUID 1.
Interfaces ==
    IF caller = "serial" THEN IfaceResults
    ELSE {i \in IfaceResults : i.found => i.hw = 1}
ClientIDs == IF caller = "serial" THEN DUIDs ELSE {1}

\* What the network delivers to the ReadFrom of probe p: any outcome under
\* a serial caller; under a concurrent caller at most MaxLog packets per
\* invocation, out of ConcurrentPackets.
Delivered(p) ==
    IF caller = "serial"
    THEN ReadOutcomes(p, remaining[p])
    ELSE {out \in ReadOutcomes(p, remaining[p]) :
             out.err = "nil" =>
                out.pkt \in ConcurrentPackets(p) /\ Len(log[p]) < MaxLog}

\* Mutant: the endpoint is closed on the successful paths only.
Return_CloseOnSuccessOnly(p, r) ==
    /\ pc' = [pc EXCEPT ![p] = "done"]
    /\ ret' = [ret EXCEPT ![p] = r]
    /\ conn' = [conn EXCEPT ![p] =
                  IF @ = "open" /\ r.err = "nil" THEN "closed" ELSE @]
    /\ closes' = [closes EXCEPT ![p] =
                    IF conn[p] = "open" /\ r.err = "nil" THEN @ + 1 ELSE @]

\* Mutant: the endpoint is kept in a variable both probes share, the
\* deferred Close closes whatever endpoint is open.
Return_ClosesSharedConn(p, r) ==
    /\ pc' = [pc EXCEPT ![p] = "done"]
    /\ ret' = [ret EXCEPT ![p] = r]
    /\ conn' = [q \in Probes |->
                  IF conn[q] = "open" THEN "closed" ELSE conn[q]]
    /\ closes' = [q \in Probes |->
                    IF conn[q] = "open" THEN closes[q] + 1 ELSE closes[q]]

\* A return statement: the result, and the deferred c.Close() when the
\* defer was registered (lines 74-76, 166-168).
Return(p, r) ==
    /\ pc' = [pc EXCEPT ![p] = "done"]
    /\ ret' = [ret EXCEPT ![p] = r]
    /\ conn' = [conn EXCEPT ![p] = IF @ = "open" THEN "closed" ELSE @]
    /\ closes' = [closes EXCEPT ![p] = IF conn[p] = "open" THEN @ + 1 ELSE @]

\* Lines 24-66 / 128-159: interface lookup, platform check, request,
\* address resolution.
Setup(p) ==
    /\ pc[p] = "start"
    /\ CallerAllows(p)
    /\ \E ifc \in Interfaces, reqOK \in BOOLEAN, resOK \in BOOLEAN,
          xid \in XIDs, cid \in ClientIDs :
          /\ iface' = [iface EXCEPT ![p] = ifc]
          /\ IF SetupError(p, goos, ifc, reqOK, resOK) = "nil"
             THEN /\ req' = [req EXCEPT ![p] = NewRequest(p, xid, cid)]
                  /\ pc' = [pc EXCEPT ![p] = "bind"]
                  /\ UNCHANGED <<ret, conn, closes>>
             ELSE /\ req' = req
                  /\ Return(p, Failed(SetupError(p, goos, ifc, reqOK, resOK)))
    /\ UNCHANGED <<caller, log, goos>>
    /\ UNCHANGED <<binds, sends, reads, sets, remaining, elapsed, rd>>

\* Mutant: the error of the bind is not tested.
NewUDPConn_IgnoreError(p) ==
    /\ pc[p] = "bind"
    /\ binds' = [binds EXCEPT ![p] = @ + 1]
    /\ \E ok \in BOOLEAN :
          /\ conn' = [conn EXCEPT ![p] = IF ok THEN "open" ELSE @]
          /\ pc' = [pc EXCEPT ![p] = "send"]
          /\ UNCHANGED <<ret, closes>>
    /\ UNCHANGED <<caller, log, goos>>
    /\ UNCHANGED <<iface, req, sends, reads, sets, remaining, elapsed,
                   rd>>

\* Lines 70-76 / 162-168: bind the endpoint and register the deferred Close.
NewUDPConn(p) ==
    /\ pc[p] = "bind"
    /\ binds' = [binds EXCEPT ![p] = @ + 1]
    /\ \E ok \in BOOLEAN :
          IF ok
          THEN /\ conn' = [conn EXCEPT ![p] = "open"]
               /\ pc' = [pc EXCEPT ![p] = "send"]
               /\ UNCHANGED <<ret, closes>>
          ELSE Return(p, Failed("bind"))
    /\ UNCHANGED <<caller, log, goos>>
    /\ UNCHANGED <<iface, req, sends, reads, sets, remaining, elapsed,
                   rd>>

\* Lines 79-82 / 170-173: send the request.
WriteTo(p) ==
    /\ pc[p] = "send"
    /\ sends' = [sends EXCEPT ![p] = @ + 1]
    /\ \E ok \in BOOLEAN :
          IF ok
          THEN /\ pc' = [pc EXCEPT ![p] = "loop"]
               /\ UNCHANGED <<ret, conn, closes>>
          ELSE Return(p, Failed("send"))
    /\ UNCHANGED <<caller, log, goos>>
    /\ UNCHANGED <<iface, req, binds, reads, sets, remaining, elapsed,
                   rd>>

\* Lines 88-89 / 177-178: top of the loop body: a fresh buffer, and the read
\* deadline set to now + defaultDiscoverTime.
SetReadDeadline(p) ==
    /\ pc[p] = "loop"
    /\ rd' = [rd EXCEPT ![p] = NoRead]
    /\ remaining' = [remaining EXCEPT ![p] = ReadDeadline]
    /\ sets' = [sets EXCEPT ![p] = Sat(@ + 1)]
    /\ pc' = [pc EXCEPT ![p] = "read"]
    /\ UNCHANGED <<caller, log, goos>>
    /\ UNCHANGED <<iface, req, conn, binds, sends, reads, closes,
                   elapsed, ret>>

\* Lines 90-121 / 179-213: ReadFrom returns and the rest of the iteration
\* runs: return, or continue with the next iteration.
ReadFrom(p) ==
    /\ pc[p] = "read"
    /\ reads' = [reads EXCEPT ![p] = Sat(@ + 1)]
    /\ \E out \in Delivered(p) :
          /\ rd' = [rd EXCEPT ![p] = out]
          /\ log' = [log EXCEPT ![p] =
                       IF caller = "concurrent" THEN Append(@, out) ELSE @]
          /\ IF Receive(p, out, iface[p], req[p]).next = "continue"
             THEN /\ pc' = [pc EXCEPT ![p] = "loop"]
                  /\ UNCHANGED <<ret, conn, closes>>
             ELSE Return(p, Receive(p, out, iface[p], req[p]).ret)
    /\ UNCHANGED <<caller, goos, iface, req, binds, sends, sets, remaining,
                   elapsed>>

\* Time passes while a probe is blocked in ReadFrom, up to its deadline.
Tick ==
    /\ \E p \in Probes : pc[p] = "read"
    /\ \A p \in Probes :
          /\ pc[p] \in {"start", "read", "done"}
          /\ pc[p] = "read" => remaining[p] > 0
    /\ remaining' = [p \in Probes |->
                       IF pc[p] = "read" THEN remaining[p] - 1
                       ELSE remaining[p]]
    /\ elapsed' = [p \in Probes |->
                     IF pc[p] = "read" THEN SatE(elapsed[p] + 1)
                     ELSE elapsed[p]]
    /\ UNCHANGED <<caller, log, goos>>
    /\ UNCHANGED <<pc, iface, req, conn, binds, sends, reads, sets,
                   closes, rd, ret>>

\* The caller takes the result; the function's locals are gone, the next
\* invocation starts afresh.
Collect(p) ==
    /\ pc[p] = "done"
    /\ pc' = [pc EXCEPT ![p] = "start"]
    /\ iface' = [iface EXCEPT ![p] = NoIface]
    /\ req' = [req EXCEPT ![p] = NoReq]
    /\ conn' = [conn EXCEPT ![p] = "none"]
    /\ binds' = [binds EXCEPT ![p] = 0]
    /\ sends' = [sends EXCEPT ![p] = 0]
    /\ reads' = [reads EXCEPT ![p] = 0]
    /\ sets' = [sets EXCEPT ![p] = 0]
    /\ closes' = [closes EXCEPT ![p] = 0]
    /\ remaining' = [remaining EXCEPT ![p] = 0]
    /\ elapsed' = [elapsed EXCEPT ![p] = 0]
    /\ rd' = [rd EXCEPT ![p] = NoRead]
    /\ ret' = [ret EXCEPT ![p] = NoRet]
    /\ log' = [log EXCEPT ![p] = <<>>]
    /\ UNCHANGED <<caller, goos>>

Next ==
    \/ \E p \in Probes : Setup(p)
    \/ \E p \in Probes : NewUDPConn(p)
    \/ \E p \in Probes : WriteTo(p)
    \/ \E p \in Probes : SetReadDeadline(p)
    \/ \E p \in Probes : ReadFrom(p)
    \/ \E p \in Probes : Collect(p)
    \/ Tick

Spec == Init /\ [][Next]_vars

\* The goroutine of a started probe keeps running, a blocked ReadFrom
\* returns (with a packet, an error or the timeout), and time keeps passing.
\* Whether and when the caller invokes a probe is left open.
Fairness ==
    /\ \A p \in Probes :
          /\ WF_vars(NewUDPConn(p))
          /\ WF_vars(WriteTo(p))
          /\ WF_vars(SetReadDeadline(p))
          /\ WF_vars(ReadFrom(p))
    /\ SF_vars(Tick)

FairSpec == Spec /\ Fairness

SpecConcurrent == InitConcurrent /\ [][Next]_vars

TypeOK ==
    /\ caller \in {"serial", "concurrent"}
    /\ \A p \in Probes : Len(log[p]) <= MaxLog + 1
    /\ goos \in {"linux", "darwin"}
    /\ pc \in [Probes -> {"start", "bind", "send", "loop", "read", "done"}]
    /\ \A p \in Probes :
          /\ iface[p] \in IfaceResults
          /\ conn[p] \in {"none", "open", "closed"}
          /\ binds[p] \in 0..1 /\ sends[p] \in 0..1 /\ closes[p] \in 0..1
          /\ reads[p] \in 0..MaxCount /\ sets[p] \in 0..MaxCount
          /\ remaining[p] \in 0..defaultDiscoverTime
          /\ elapsed[p] \in 0..MaxElapsed

(* ------------------------------ claims -------------------------------- *)

\* A packet was read in the current iteration of probe p.
PacketRead(p) == rd[p].err = "nil"

\* The packet meets every correlation rule of its protocol.
Matching(p, pkt, ifc, rq) ==
    /\ pkt.ok
    /\ IF p = "v4"
       THEN /\ pkt.op = OpcodeBootReply
            /\ pkt.hwtype = HWTypeEthernet
            /\ pkt.chaddr = ifc.hw
            /\ pkt.xid = rq.xid
            /\ pkt.mt
       ELSE /\ ~pkt.relay
            /\ pkt.mtype = MessageTypeAdvertise
            /\ pkt.xid = rq.xid
            /\ pkt.cid # 0
            /\ pkt.cid = rq.cid

Returned(p) == pc[p] = "done"
IsFailed(r) == ~r.ok /\ r.err \notin {"nil", "unset"}

\* C1: the read deadline is set once per invocation and not refreshed by a
\* later iteration: the absolute deadline (time elapsed since the first
\* SetReadDeadline plus time left) is the same at every read, and the probe
\* has returned when one discover timeout has elapsed since then.
C1_DeadlineSetOnce ==
    \A p \in Probes :
       /\ pc[p] = "read" /\ elapsed[p] < MaxElapsed
             => elapsed[p] + remaining[p] = defaultDiscoverTime
       /\ Returned(p) => elapsed[p] <= defaultDiscoverTime

\* C2: a packet whose transaction id differs from the request's is never
\* accepted, whatever its other fields: after reading it the probe has not
\* returned (true, nil).
C2_TxidMismatchNeverAccepted ==
    \A p \in Probes :
       PacketRead(p) /\ rd[p].pkt.ok /\ rd[p].pkt.xid # req[p].xid
          => ~(Returned(p) /\ ret[p] = Detected)

\* A packet that matches in every field but the transaction id was read.
C2_Witness ==
    \E p \in Probes :
       /\ pc[p] = "loop" /\ PacketRead(p)
       /\ rd[p].pkt.xid # req[p].xid
       /\ Matching(p, [rd[p].pkt EXCEPT !.xid = req[p].xid], iface[p], req[p])

\* C3: when the interface does not exist or has no address of the probe's
\* family, the probe has returned (false, error) and has bound no endpoint,
\* sent nothing, set no deadline and read nothing.
C3_NoAddressNoIO ==
    \A p \in Probes :
       pc[p] # "start" /\ (~iface[p].found \/ ~iface[p].hasAddr)
          => /\ Returned(p)
             /\ IsFailed(ret[p])
             /\ binds[p] = 0 /\ sends[p] = 0 /\ reads[p] = 0 /\ sets[p] = 0
             /\ conn[p] = "none" /\ closes[p] = 0

\* A probe has returned for an existing interface without an address of its
\* family.
C3_Witness ==
    \E p \in Probes :
       /\ Returned(p) /\ iface[p].found /\ ~iface[p].hasAddr
       /\ ret[p] = Failed("noaddr")

\* C4: the endpoint a probe bound is closed exactly once when the probe has
\* returned, on every exit path; it is never closed twice, never before the
\* return, and nothing is closed when nothing was bound.
C4_ClosedExactlyOnce ==
    \A p \in Probes :
       /\ closes[p] <= 1
       /\ Returned(p) /\ conn[p] # "none"
             => closes[p] = 1 /\ conn[p] = "closed"
       /\ ~Returned(p) => closes[p] = 0 /\ conn[p] # "closed"
       /\ conn[p] = "none" => closes[p] = 0

\* A probe has returned through the failed-send path with its endpoint
\* closed.
C4_Witness ==
    \E p \in Probes :
       Returned(p) /\ ret[p] = Failed("send") /\ closes[p] = 1

\* C5: a packet read before the deadline that is not a matching one leaves
\* the probe waiting (no return), and a matching packet read after any
\* number of such packets makes the probe return (true, nil).
C5_AcceptsAfterUnrelated ==
    [][\A p \in Probes :
          pc[p] = "read" /\ rd'[p].err = "nil"
             => IF Matching(p, rd'[p].pkt, iface[p], req[p])
                THEN pc'[p] = "done" /\ ret'[p] = Detected
                ELSE pc'[p] = "loop" /\ ret'[p] = NoRet]_vars

\* A probe returned (true, nil) on a read that followed at least two reads
\* of other packets.
C5_Witness ==
    \E p \in Probes :
       /\ Returned(p) /\ ret[p] = Detected /\ reads[p] >= 3
       /\ Matching(p, rd[p].pkt, iface[p], req[p])

\* C6: a read that timed out makes the probe return (false, nil); a read
\* that failed otherwise makes it return (false, error) at once; (false,
\* nil) is returned for a timeout only.
C6_TimeoutVersusError ==
    \A p \in Probes :
       /\ rd[p].err = "timeout" => Returned(p) /\ ret[p] = NotDetected
       /\ rd[p].err = "io" => Returned(p) /\ IsFailed(ret[p])
       /\ Returned(p) /\ ret[p] = NotDetected => rd[p].err = "timeout"

\* A probe returned an error for a failed read that followed another read.
C6_Witness ==
    \E p \in Probes :
       /\ Returned(p) /\ rd[p].err = "io" /\ reads[p] >= 2
       /\ ret[p] = Failed("receive")

\* C7: when no packet arrived, the probe returns (false, nil) exactly one
\* discover timeout after the send; (false, nil) is never returned earlier
\* than that.
C7_TimeoutAfterDiscoverTime ==
    \A p \in Probes :
       /\ Returned(p) /\ reads[p] = 1 /\ rd[p].err = "timeout"
             => ret[p] = NotDetected /\ elapsed[p] = defaultDiscoverTime
       /\ Returned(p) /\ ret[p] = NotDetected
             => elapsed[p] >= defaultDiscoverTime

\* A probe whose only read timed out has returned.
C7_Witness ==
    \E p \in Probes :
       /\ Returned(p) /\ reads[p] = 1 /\ rd[p].err = "timeout"
       /\ sends[p] = 1 /\ elapsed[p] = defaultDiscoverTime

\* C8: a v4 packet whose client hardware address differs from the
\* interface's is never accepted, whatever its other fields.
C8_HWAddrMismatchNeverAccepted ==
    PacketRead("v4") /\ rd["v4"].pkt.ok
       /\ rd["v4"].pkt.chaddr # iface["v4"].hw
       => ~(Returned("v4") /\ ret["v4"] = Detected)

\* A v4 packet that matches in every field but the hardware address was
\* read.
C8_Witness ==
    /\ pc["v4"] = "loop" /\ PacketRead("v4")
    /\ rd["v4"].pkt.chaddr # iface["v4"].hw
    /\ Matching("v4", [rd["v4"].pkt EXCEPT !.chaddr = iface["v4"].hw],
                iface["v4"], req["v4"])

\* C9: a v6 packet whose message type is not ADVERTISE is never accepted,
\* also when transaction id and client identifier match.
C9_NotAdvertiseNeverAccepted ==
    PacketRead("v6") /\ rd["v6"].pkt.ok
       /\ (rd["v6"].pkt.relay \/ rd["v6"].pkt.mtype # MessageTypeAdvertise)
       => ~(Returned("v6") /\ ret["v6"] = Detected)

\* A v6 REPLY message with the request's transaction id and client
\* identifier was read.
C9_Witness ==
    /\ pc["v6"] = "loop" /\ PacketRead("v6")
    /\ rd["v6"].pkt.ok /\ ~rd["v6"].pkt.relay
    /\ rd["v6"].pkt.mtype = MessageTypeReply
    /\ rd["v6"].pkt.xid = req["v6"].xid
    /\ rd["v6"].pkt.cid = req["v6"].cid

\* C10: a v6 packet without a client identifier, or with one that differs
\* from the request's, is neither accepted nor makes the probe fail: the
\* probe has not returned and goes on with the next iteration.
C10_ClientIDMismatchSkipped ==
    PacketRead("v6") /\ rd["v6"].pkt.ok
       /\ (rd["v6"].pkt.cid = 0 \/ rd["v6"].pkt.cid # req["v6"].cid)
       => pc["v6"] = "loop" /\ ret["v6"] = NoRet

\* An ADVERTISE with the request's transaction id and no client identifier
\* was read, and before it one with another client identifier.
C10_Witness ==
    /\ pc["v6"] = "loop" /\ PacketRead("v6") /\ reads["v6"] >= 2
    /\ rd["v6"].pkt.ok /\ ~rd["v6"].pkt.relay
    /\ rd["v6"].pkt.mtype = MessageTypeAdvertise
    /\ rd["v6"].pkt.xid = req["v6"].xid
    /\ rd["v6"].pkt.cid = 0

\* C11 as stated: a v4 packet with opcode boot-reply, the interface's
\* hardware address and the request's transaction id makes the probe return
\* (true, nil) on that packet.
C11_ThreeFieldsAccepted ==
    PacketRead("v4") /\ rd["v4"].pkt.ok
       /\ rd["v4"].pkt.op = OpcodeBootReply
       /\ rd["v4"].pkt.chaddr = iface["v4"].hw
       /\ rd["v4"].pkt.xid = req["v4"].xid
       => Returned("v4") /\ ret["v4"] = Detected

\* C11, amended: a v4 packet with opcode boot-reply, hardware type Ethernet,
\* the interface's hardware address, the request's transaction id and a
\* message-type option makes the probe return (true, nil) on that packet:
\* no further read, and the deadline has not elapsed.
C11_MatchReturnsPromptly ==
    PacketRead("v4") /\ Matching("v4", rd["v4"].pkt, iface["v4"], req["v4"])
       => /\ Returned("v4") /\ ret["v4"] = Detected
          /\ remaining["v4"] > 0

\* The first read of a v4 probe delivered a matching packet before any time
\* had passed.
C11_Witness ==
    /\ Returned("v4") /\ ret["v4"] = Detected
    /\ reads["v4"] = 1 /\ elapsed["v4"] = 0
    /\ remaining["v4"] = defaultDiscoverTime

\* C12: one attempt in a fixed order: at most one bind, one send on the bound
\* endpoint, reads and deadlines only after the send; a failed bind is
\* followed by no send, a failed send by no read.
C12_BindSendReadOrder ==
    \A p \in Probes :
       /\ binds[p] <= 1 /\ sends[p] <= 1
       /\ sends[p] = 1 => binds[p] = 1 /\ conn[p] # "none"
       /\ pc[p] \in {"loop", "read"} => sends[p] = 1 /\ conn[p] = "open"
       /\ reads[p] > 0 \/ sets[p] > 0 => sends[p] = 1 /\ conn[p] # "none"
       /\ ret[p] = Failed("bind")
             => Returned(p) /\ sends[p] = 0 /\ sets[p] = 0 /\ reads[p] = 0
       /\ ret[p] = Failed("send")
             => Returned(p) /\ sets[p] = 0 /\ reads[p] = 0

\* A probe is in its third read or later after one bind and one send.
C12_Witness ==
    \E p \in Probes :
       pc[p] = "read" /\ binds[p] = 1 /\ sends[p] = 1 /\ reads[p] >= 2

\* C13: on macOS the v4 probe returns (false, error) without binding,
\* sending or reading; the unsupported-platform error occurs on macOS only
\* and in the v4 probe only.
C13_DarwinFailsFast ==
    /\ goos = "darwin" /\ pc["v4"] # "start"
          => /\ Returned("v4") /\ IsFailed(ret["v4"])
             /\ binds["v4"] = 0 /\ sends["v4"] = 0 /\ reads["v4"] = 0
             /\ sets["v4"] = 0 /\ conn["v4"] = "none"
    /\ \A p \in Probes :
          ret[p].err = "unsupported" => goos = "darwin" /\ p = "v4"

\* On macOS a v4 probe of an interface with an IPv4 address has returned the
\* unsupported-platform error.
C13_Witness ==
    /\ goos = "darwin" /\ Returned("v4")
    /\ iface["v4"].found /\ iface["v4"].hasAddr
    /\ ret["v4"] = Failed("unsupported")

\* C15: a decoded v4 packet is accepted if and only if opcode, hardware
\* type, hardware address, transaction id and message-type option all pass;
\* otherwise the loop continues.
C15_AcceptIffAllFive ==
    PacketRead("v4") /\ rd["v4"].pkt.ok
       => LET pkt == rd["v4"].pkt
              five == /\ pkt.op = OpcodeBootReply
                      /\ pkt.hwtype = HWTypeEthernet
                      /\ pkt.chaddr = iface["v4"].hw
                      /\ pkt.xid = req["v4"].xid
                      /\ pkt.mt
          IN  /\ (Returned("v4") /\ ret["v4"] = Detected) <=> five
              /\ ~five => pc["v4"] = "loop" /\ ret["v4"] = NoRet

\* A v4 boot-reply with Ethernet type, the interface's address and the
\* request's id but no message-type option was read and the loop goes on.
C15_Witness ==
    /\ pc["v4"] = "loop" /\ PacketRead("v4")
    /\ ~rd["v4"].pkt.mt
    /\ Matching("v4", [rd["v4"].pkt EXCEPT !.mt = TRUE], iface["v4"],
                req["v4"])

\* C16: a packet that does not decode, has no extractable inner message or
\* fails correlation never makes a probe return; a probe that returned from
\* its loop did so on a matching packet, a timeout or a read error.
C16_SkippedPacketsNotSurfaced ==
    \A p \in Probes :
       /\ PacketRead(p) /\ ~Matching(p, rd[p].pkt, iface[p], req[p])
             => pc[p] = "loop" /\ ret[p] = NoRet
       /\ Returned(p) /\ reads[p] > 0
             => \/ rd[p].err \in {"timeout", "io"}
                \/ PacketRead(p) /\ Matching(p, rd[p].pkt, iface[p], req[p])

\* A relay envelope without an inner message was read by the v6 probe and
\* the loop goes on.
C16_Witness ==
    /\ pc["v6"] = "loop" /\ PacketRead("v6")
    /\ rd["v6"].pkt = EmptyRelay6

\* C17: a return is (true, nil), (false, nil) or (false, error), never
\* (true, error); (true, nil) follows a successful bind, a successful send
\* and the read of an accepted packet; an error from before the bind comes
\* with no network I/O.
C17_ThreeOutcomes ==
    \A p \in Probes :
       /\ ~Returned(p) => ret[p] = NoRet
       /\ Returned(p)
             => ret[p] = Detected \/ ret[p] = NotDetected \/ IsFailed(ret[p])
       /\ ret[p].ok
             => /\ ret[p].err = "nil"
                /\ binds[p] = 1 /\ sends[p] = 1 /\ conn[p] = "closed"
                /\ PacketRead(p)
                /\ Matching(p, rd[p].pkt, iface[p], req[p])
       /\ ret[p].err \in {"iface", "noaddr", "unsupported", "newreq",
                           "resolve"}
             => /\ binds[p] = 0 /\ sends[p] = 0 /\ reads[p] = 0
                /\ sets[p] = 0 /\ conn[p] = "none"

\* A probe returned an error of the address resolution, before the bind.
C17_Witness ==
    \E p \in Probes :
       Returned(p) /\ ret[p] = Failed("resolve") /\ binds[p] = 0

\* C19: a v6 relay envelope is never accepted, also when the message it
\* wraps is an ADVERTISE with the request's transaction id and client
\* identifier; the loop continues after it.
C19_RelayWrappedNeverAccepted ==
    PacketRead("v6") /\ rd["v6"].pkt.ok /\ rd["v6"].pkt.relay
       => pc["v6"] = "loop" /\ ret["v6"] = NoRet

\* A relay envelope around an ADVERTISE with the request's transaction id
\* and client identifier was read.
C19_Witness ==
    /\ pc["v6"] = "loop" /\ PacketRead("v6")
    /\ rd["v6"].pkt.relay /\ rd["v6"].pkt.inner
    /\ rd["v6"].pkt.mtype = MessageTypeAdvertise
    /\ rd["v6"].pkt.xid = req["v6"].xid
    /\ rd["v6"].pkt.cid = req["v6"].cid

\* C14: every invocation of a probe eventually returns, also when packets
\* that are skipped keep arriving, each before the read deadline then in
\* force.
C14_EventuallyReturns ==
    \A p \in Probes :
       (pc[p] \in {"bind", "send", "loop", "read"}) ~> Returned(p)

\* The locals and the endpoint of probe q.
LocalsOf(q) ==
    <<pc[q], iface[q], req[q], conn[q], binds[q], sends[q], reads[q],
      sets[q], closes[q], remaining[q], elapsed[q], rd[q], ret[q], log[q]>>

\* The result of probe p is the one its loop produces when run alone on the
\* outcomes delivered to p's own endpoint.
ResultAsAlone(p) ==
    /\ Returned(p) /\ log[p] # <<>>
          => ret[p] = RunLoop(p, log[p], iface[p], req[p])
    /\ ~Returned(p) => RunLoop(p, log[p], iface[p], req[p]) = NoRet

\* C18: probes invoked concurrently share no mutable state: under every
\* interleaving a step of one probe leaves the other's locals, endpoint,
\* deadline and result as they are, and each probe's result is the one its
\* loop produces alone on what was delivered to its own endpoint.
C18_ProbesIndependent ==
    [][/\ \A p \in Probes : ResultAsAlone(p) /\ ResultAsAlone(p)'
       /\ \A p \in Probes : \A q \in Probes \ {p} :
             pc'[p] # pc[p] => LocalsOf(q)' = LocalsOf(q)]_vars

\* Both probes are in their receive loops at once, each after a packet was
\* delivered to its endpoint, and the v4 probe has a later deadline.
C18_Witness ==
    /\ pc["v4"] = "read" /\ pc["v6"] = "read"
    /\ Len(log["v4"]) >= 1 /\ Len(log["v6"]) >= 1
    /\ remaining["v4"] > remaining["v6"]

====
